---- MODULE Spec2Model ----
(***************************************************************************)
(* Layered configuration store of ccconfig (ccconfig/simple_config.py):    *)
(* the Config class with its priority-sorted source list, the merged tree, *)
(* the environment overlay, reload and the change-listener bus.            *)
(***************************************************************************)
EXTENDS Integers, Sequences, FiniteSets, TLC

VARIABLES
    config_data,        \* Config._config_data: the stored tree
    config_files,       \* Config._config_files: list of <<filepath, priority>>
    change_listeners,   \* Config._change_listeners: insertion-ordered dict
    fs,                 \* the file system: filepath -> "ok" | "malformed" | "absent"
    yaml,               \* the module global yaml: TRUE when PyYAML was imported
    type_converters,    \* Config._type_converters: name -> converter
    config_metadata,    \* Config._config_metadata: key -> ConfigItem
    threads,            \* where each thread stands inside load or reload
    last,               \* the last public call, the exception it raised and
                        \* the stored tree it found
    log                 \* listener invocations made by the last public call

vars == <<config_data, config_files, change_listeners, fs, yaml, type_converters,
          config_metadata, threads, last, log>>

----------------------------------------------------------------------------
(* Bounds of the model *)

MaxSources == 2         \* longest tracked source list before a load is refused
MaxPriority == 2        \* priorities passed to load are 0..MaxPriority
MaxListeners == 2       \* most listeners registered at once
MaxRules == 2           \* most keys a schema passed to validate declares
MaxItems == 2           \* most keys with a registered ConfigItem

Priorities == 0..MaxPriority

----------------------------------------------------------------------------
(* Values of a configuration tree: None, str, int, bool, float, list, dict *)

Null == [t |-> "null"]
StrV(s) == [t |-> "str", v |-> s]
IntV(i) == [t |-> "int", i |-> i]
BoolV(b) == [t |-> "bool", b |-> b]
FloatV(f) == [t |-> "float", f |-> f]      \* f: the repr of the float
ListV(l) == [t |-> "list", l |-> l]
Dict(m) == [t |-> "dict", m |-> m]
EmptyDict == Dict(<<>>)

IsDict(v) == v.t = "dict"
Has(d, k) == k \in DOMAIN d.m

----------------------------------------------------------------------------
(* The files and the environment the store is run against *)

Files == {"base.json", "over.json", "extra.yaml", "notes.txt", "broken.json", "gone.json"}

Ext(f) ==
    CASE f \in {"base.json", "over.json", "broken.json", "gone.json"} -> ".json"
      [] f = "extra.yaml" -> ".yaml"
      [] f = "notes.txt" -> ".txt"

\* what the parser of the file's format returns for a well-formed file
Content(f) ==
    CASE f = "base.json" -> Dict("a" :> Dict("b" :> StrV("1")) @@ "c" :> StrV("1"))
      [] f = "over.json" -> Dict("a" :> Dict("b" :> StrV("2") @@ "c" :> StrV("2")))
      [] f = "extra.yaml" -> Dict("a" :> IntV(7) @@ "c" :> Null)
      [] OTHER -> EmptyDict

FsInit ==
    [f \in Files |->
        CASE f = "gone.json" -> "absent"
          [] f = "broken.json" -> "malformed"
          [] OTHER -> "ok"]

\* files that may be deleted while the store is running
Removable == {"over.json"}

\* os.environ
Environ == "APP_c" :> "9" @@ "APP_e" :> "9" @@ "HOME" :> "9" @@ "A_B" :> "7"
Prefixes == {"", "APP_"}

\* k.startswith(prefix)
StartsWith(k, prefix) ==
    CASE prefix = "" -> TRUE
      [] prefix = "APP_" -> k \in {"APP_c", "APP_e"}

\* k[len(prefix):]
ShortKey(k, prefix) ==
    CASE prefix = "" -> k
      [] prefix = "APP_" /\ k = "APP_c" -> "c"
      [] prefix = "APP_" /\ k = "APP_e" -> "e"

\* key.split('.')
DottedKeys == {"a.b", "c"}
Split(key) ==
    CASE key = "a.b" -> <<"a", "b">>
      [] key = "c" -> <<"c">>
      [] key = "a" -> <<"a">>
      [] key = "a.b.c" -> <<"a", "b", "c">>
      [] key = "e" -> <<"e">>

----------------------------------------------------------------------------
(* Config._merge_dict *)

\* dict.update: a mapping of the override replaces the one of the base
MergeShallow(base, override) ==
    Dict([k \in (DOMAIN base.m) \cup (DOMAIN override.m) |->
            IF Has(override, k) THEN override.m[k] ELSE base.m[k]])

RECURSIVE _merge_dict(_, _)
_merge_dict(base, override) ==
    Dict([k \in (DOMAIN base.m) \cup (DOMAIN override.m) |->
            IF Has(override, k)
            THEN IF Has(base, k) /\ IsDict(base.m[k]) /\ IsDict(override.m[k])
                 THEN _merge_dict(base.m[k], override.m[k])
                 ELSE override.m[k]
            ELSE base.m[k]])


----------------------------------------------------------------------------
(* Config._get_nested: the result is [exc, val]; a missing segment gives None *)

\* k in s for a str s and a one-character k: substring test
StrContains(s, k) ==
    CASE s = "maybe" -> k \in {"m", "a", "y", "b", "e"}
      [] s = "true" -> k \in {"t", "r", "u", "e"}
      [] s = "Yes" -> k \in {"Y", "e", "s"}
      [] s = "No" -> k \in {"N", "o"}
      [] OTHER -> s = k

RECURSIVE GetNestedFrom(_, _, _)
GetNestedFrom(cur, keys, i) ==
    IF i > Len(keys) THEN [exc |-> "none", val |-> cur]
    ELSE CASE cur.t = "dict" ->
                IF ~Has(cur, keys[i]) THEN [exc |-> "none", val |-> Null]
                ELSE GetNestedFrom(cur.m[keys[i]], keys, i + 1)
           [] cur.t = "str" ->
                IF ~StrContains(cur.v, keys[i]) THEN [exc |-> "none", val |-> Null]
                ELSE [exc |-> "TypeError", val |-> Null]
           [] cur.t = "list" ->
                IF \A n \in 1..Len(cur.l) : cur.l[n] # StrV(keys[i])
                THEN [exc |-> "none", val |-> Null]
                ELSE [exc |-> "TypeError", val |-> Null]
           [] OTHER -> [exc |-> "TypeError", val |-> Null]

_get_nested(config, key) == GetNestedFrom(config, Split(key), 1)

----------------------------------------------------------------------------
(* Config._load_file: the result is [exc, data] *)

_load_file(filepath, fsys, yamlmod) ==
    LET ext == Ext(filepath) IN
    CASE ext \in {".ini", ".cfg"} ->
            CASE fsys[filepath] = "absent" -> [exc |-> "none", data |-> EmptyDict]
              [] fsys[filepath] = "malformed" -> [exc |-> "ParsingError", data |-> EmptyDict]
              [] OTHER -> [exc |-> "none", data |-> Content(filepath)]
      [] ext = ".json" ->
            CASE fsys[filepath] = "absent" -> [exc |-> "FileNotFoundError", data |-> EmptyDict]
              [] fsys[filepath] = "malformed" -> [exc |-> "JSONDecodeError", data |-> EmptyDict]
              [] OTHER -> [exc |-> "none", data |-> Content(filepath)]
      [] ext \in {".yaml", ".yml"} ->
            CASE ~yamlmod -> [exc |-> "ImportError", data |-> EmptyDict]
              [] fsys[filepath] = "absent" -> [exc |-> "FileNotFoundError", data |-> EmptyDict]
              [] fsys[filepath] = "malformed" -> [exc |-> "YAMLError", data |-> EmptyDict]
              [] OTHER -> [exc |-> "none", data |-> Content(filepath)]
      [] OTHER -> [exc |-> "ValueError", data |-> EmptyDict]

----------------------------------------------------------------------------
(* self._config_files.sort(key=lambda x: x[1]): a stable sort *)

\* an unstable sort: e goes before the entries of its own priority
InsertBeforeEquals(sorted, e) ==
    LET n == Cardinality({i \in 1..Len(sorted) : sorted[i][2] < e[2]})
    IN SubSeq(sorted, 1, n) \o <<e>> \o SubSeq(sorted, n + 1, Len(sorted))

\* e goes behind every entry whose priority is not larger than its own
InsertByPriority(sorted, e) ==
    LET n == Cardinality({i \in 1..Len(sorted) : sorted[i][2] <= e[2]})
    IN SubSeq(sorted, 1, n) \o <<e>> \o SubSeq(sorted, n + 1, Len(sorted))

\* a sort that is left out: the list stays in arrival order
ArrivalOrder(files) == files

RECURSIVE SortByPriority(_)
SortByPriority(files) ==
    IF files = <<>> THEN <<>>
    ELSE InsertByPriority(SortByPriority(SubSeq(files, 1, Len(files) - 1)),
                          files[Len(files)])

----------------------------------------------------------------------------
(* Config._notify_change_listeners *)

\* one listener called with (old_config, new_config); a watch listener is the
\* closure of Config.watch.  raised: the call left by an exception; called:
\* the user's callback ran.
InvokeListener(l, old, new) ==
    IF l.kind = "plain"
    THEN [name |-> l.name, old |-> old, new |-> new, raised |-> l.raises, called |-> TRUE]
    ELSE LET old_val == _get_nested(old, l.key)
             new_val == _get_nested(new, l.key)
         IN IF old_val.exc # "none" \/ new_val.exc # "none"
            THEN [name |-> l.name, old |-> old, new |-> new, raised |-> TRUE, called |-> FALSE]
            ELSE IF old_val.val # new_val.val
                 THEN [name |-> l.name, old |-> old, new |-> new,
                       raised |-> l.raises, called |-> TRUE]
                 ELSE [name |-> l.name, old |-> old, new |-> new,
                       raised |-> FALSE, called |-> FALSE]

\* the result is [exc, log]: every exception of a listener is caught
RECURSIVE NotifyFrom(_, _, _, _)
NotifyFrom(listeners, i, old, new) ==
    IF i > Len(listeners) THEN [exc |-> "none", log |-> <<>>]
    ELSE LET r == InvokeListener(listeners[i], old, new)
             rest == NotifyFrom(listeners, i + 1, old, new)
         IN [exc |-> rest.exc, log |-> <<r>> \o rest.log]

\* listeners told the new tree twice
NotifyNewOnly(listeners, old_config, new_config) ==
    NotifyFrom(listeners, 1, new_config, new_config)

\* no try/except around the call: the first failing listener ends the loop
\* and its exception leaves _notify_change_listeners
RECURSIVE NotifyUntilRaise(_, _, _, _)
NotifyUntilRaise(listeners, i, old, new) ==
    IF i > Len(listeners) THEN [exc |-> "none", log |-> <<>>]
    ELSE LET r == InvokeListener(listeners[i], old, new)
         IN IF r.raised THEN [exc |-> "Exception", log |-> <<r>>]
            ELSE LET rest == NotifyUntilRaise(listeners, i + 1, old, new)
                 IN [exc |-> rest.exc, log |-> <<r>> \o rest.log]

NotifyUnguarded(listeners, old_config, new_config) ==
    NotifyUntilRaise(listeners, 1, old_config, new_config)

\* the listeners told from the newest registration back
NotifyLatestFirst(listeners, old_config, new_config) ==
    NotifyFrom([i \in 1..Len(listeners) |-> listeners[Len(listeners) + 1 - i]], 1,
               old_config, new_config)

_notify_change_listeners(listeners, old_config, new_config) ==
    NotifyFrom(listeners, 1, old_config, new_config)

----------------------------------------------------------------------------
(* Config.load: the result is [exc, data, files, log] *)

\* the loop over self._config_files: [exc, data], stopped by the first
\* exception of _load_file
RECURSIVE RebuildFrom(_, _, _, _, _)
RebuildFrom(files, i, new_data, fsys, yamlmod) ==
    IF i > Len(files) THEN [exc |-> "none", data |-> new_data]
    ELSE LET loaded == _load_file(files[i][1], fsys, yamlmod)
         IN IF loaded.exc # "none" THEN [exc |-> loaded.exc, data |-> new_data]
            ELSE RebuildFrom(files, i + 1, _merge_dict(new_data, loaded.data),
                             fsys, yamlmod)

\* the new source patched onto the stored tree instead of a rebuild from {}
LoadIncremental(data, files, listeners, fsys, yamlmod, filepath, priority) ==
    IF fsys[filepath] = "absent"
    THEN [exc |-> "FileNotFoundError", data |-> data, files |-> files, log |-> <<>>]
    ELSE LET sorted == SortByPriority(Append(files, <<filepath, priority>>))
             built == RebuildFrom(sorted, 1, data, fsys, yamlmod)
         IN IF built.exc # "none"
            THEN [exc |-> built.exc, data |-> data, files |-> sorted, log |-> <<>>]
            ELSE LET told == _notify_change_listeners(listeners, data, built.data)
                 IN [exc |-> told.exc, data |-> built.data, files |-> sorted,
                     log |-> told.log]

\* the tree assigned while it is being built: a failure leaves what was merged so far
LoadInPlace(data, files, listeners, fsys, yamlmod, filepath, priority) ==
    IF fsys[filepath] = "absent"
    THEN [exc |-> "FileNotFoundError", data |-> data, files |-> files, log |-> <<>>]
    ELSE LET sorted == SortByPriority(Append(files, <<filepath, priority>>))
             built == RebuildFrom(sorted, 1, EmptyDict, fsys, yamlmod)
         IN IF built.exc # "none"
            THEN [exc |-> built.exc, data |-> built.data, files |-> sorted, log |-> <<>>]
            ELSE LET told == _notify_change_listeners(listeners, data, built.data)
                 IN [exc |-> told.exc, data |-> built.data, files |-> sorted,
                     log |-> told.log]

load(data, files, listeners, fsys, yamlmod, filepath, priority) ==
    IF fsys[filepath] = "absent"
    THEN [exc |-> "FileNotFoundError", data |-> data, files |-> files, log |-> <<>>]
    ELSE LET sorted == SortByPriority(Append(files, <<filepath, priority>>))
             built == RebuildFrom(sorted, 1, EmptyDict, fsys, yamlmod)
         IN IF built.exc # "none"
            THEN [exc |-> built.exc, data |-> data, files |-> sorted, log |-> <<>>]
            ELSE LET told == _notify_change_listeners(listeners, data, built.data)
                 IN [exc |-> told.exc, data |-> built.data, files |-> sorted,
                     log |-> told.log]

----------------------------------------------------------------------------
(* Config.load_env: the result is [exc, data, files, log] *)

env_data(prefix) ==
    LET names == {k \in DOMAIN Environ : StartsWith(k, prefix)}
        short == {ShortKey(k, prefix) : k \in names}
    IN Dict([sk \in short |->
                StrV(Environ[CHOOSE k \in names : ShortKey(k, prefix) = sk])])

\* the variable A_B read as the dotted key a.b
LoadEnvDotted(data, files, listeners, prefix) ==
    LET env == env_data(prefix)
        dotted == IF Has(env, "A_B")
                  THEN Dict([k \in (DOMAIN env.m \ {"A_B"}) \cup {"a"} |->
                                IF k = "a" THEN Dict("b" :> env.m["A_B"]) ELSE env.m[k]])
                  ELSE env
    IN [exc |-> "none", data |-> _merge_dict(data, dotted), files |-> files, log |-> <<>>]

load_env(data, files, listeners, prefix) ==
    [exc |-> "none", data |-> _merge_dict(data, env_data(prefix)),
     files |-> files, log |-> <<>>]

----------------------------------------------------------------------------
(* Config.reload: the result is [exc, data, files, log] *)

\* for filepath in files: self.load(filepath), the priority left to its default
DefaultPriority == 0

RECURSIVE ReloadFrom(_, _, _, _, _, _, _)
ReloadFrom(names, i, data, files, listeners, fsys, yamlmod) ==
    IF i > Len(names) THEN [exc |-> "none", data |-> data, files |-> files, log |-> <<>>]
    ELSE LET one == load(data, files, listeners, fsys, yamlmod, names[i], DefaultPriority)
         IN IF one.exc # "none" THEN one
            ELSE LET rest == ReloadFrom(names, i + 1, one.data, one.files,
                                        listeners, fsys, yamlmod)
                 IN [rest EXCEPT !.log = one.log \o rest.log]

reload(data, files, listeners, fsys, yamlmod) ==
    ReloadFrom([i \in 1..Len(files) |-> files[i][1]], 1, data, <<>>,
               listeners, fsys, yamlmod)

----------------------------------------------------------------------------
(* Config.add_change_listener, Config.remove_change_listener, Config.watch *)

ListenerIndex(listeners, name) ==
    {i \in 1..Len(listeners) : listeners[i].name = name}

\* a registration under a known name is ignored
AddKeepsFirst(listeners, l) ==
    IF ListenerIndex(listeners, l.name) = {}
    THEN Append(listeners, l)
    ELSE listeners

\* self._change_listeners[name] = callback: a known name keeps its position
add_change_listener(listeners, l) ==
    IF ListenerIndex(listeners, l.name) = {}
    THEN Append(listeners, l)
    ELSE [i \in 1..Len(listeners) |->
            IF listeners[i].name = l.name THEN l ELSE listeners[i]]

RECURSIVE remove_change_listener(_, _)
remove_change_listener(listeners, name) ==
    IF listeners = <<>> THEN <<>>
    ELSE IF Head(listeners).name = name
         THEN remove_change_listener(Tail(listeners), name)
         ELSE <<Head(listeners)>> \o remove_change_listener(Tail(listeners), name)

\* the closure watch registers under f"watch_{key}"
WatchListener(key, raises) ==
    [name |-> "watch_" \o key, kind |-> "watch", key |-> key, raises |-> raises]

PlainListener(name, raises) ==
    [name |-> name, kind |-> "plain", key |-> "", raises |-> raises]

watch(listeners, key, raises) ==
    add_change_listener(listeners, WatchListener(key, raises))

----------------------------------------------------------------------------
(* The converters: a call returns [exc, val] *)

Ok(v) == [exc |-> "none", val |-> v]
Raise(e) == [exc |-> e, val |-> Null]

\* Config.__init__: self._type_converters, name -> callable
BuiltinConverters ==
    "int" :> "int" @@ "float" :> "float" @@ "bool" :> "_convert_bool"
        @@ "str" :> "str" @@ "list" :> "_convert_list" @@ "dict" :> "_convert_dict"

\* the decimal literals among the strings, and the floats of the same value
IntOfStr == "0" :> 0 @@ "1" :> 1 @@ "2" :> 2 @@ "7" :> 7 @@ "9" :> 9
IntOfFloat == "0.0" :> 0 @@ "1.0" :> 1 @@ "2.0" :> 2 @@ "7.0" :> 7 @@ "9.0" :> 9
StrOfInt(i) == CHOOSE d \in DOMAIN IntOfStr : IntOfStr[d] = i
FloatOfInt(i) == CHOOSE d \in DOMAIN IntOfFloat : IntOfFloat[d] = i

\* val.lower()
Lower(str) ==
    CASE str = "Yes" -> "yes"
      [] str = "No" -> "no"
      [] str = "TRUE" -> "true"
      [] OTHER -> str

\* bool(val): the truth value of an object
Truthy(val) ==
    CASE val.t = "null" -> FALSE
      [] val.t = "bool" -> val.b
      [] val.t = "int" -> val.i # 0
      [] val.t = "float" -> val.f # "0.0"
      [] val.t = "str" -> val.v # ""
      [] val.t = "list" -> val.l # <<>>
      [] val.t = "dict" -> DOMAIN val.m # {}

_convert_bool(val) ==
    IF val.t = "bool" THEN Ok(val)
    ELSE IF val.t = "str" /\ Lower(val.v) \in {"true", "yes", "1"} THEN Ok(BoolV(TRUE))
    ELSE IF val.t = "str" /\ Lower(val.v) \in {"false", "no", "0"} THEN Ok(BoolV(FALSE))
    ELSE Ok(BoolV(Truthy(val)))

\* int(val)
PyInt(val) ==
    CASE val.t = "int" -> Ok(val)
      [] val.t = "bool" -> Ok(IntV(IF val.b THEN 1 ELSE 0))
      [] val.t = "str" ->
            IF val.v \in DOMAIN IntOfStr THEN Ok(IntV(IntOfStr[val.v]))
            ELSE Raise("ValueError")
      [] val.t = "float" ->
            IF val.f = "inf" THEN Raise("OverflowError") ELSE Ok(IntV(IntOfFloat[val.f]))
      [] OTHER -> Raise("TypeError")

\* float(val)
PyFloat(val) ==
    CASE val.t = "float" -> Ok(val)
      [] val.t = "int" -> Ok(FloatV(FloatOfInt(val.i)))
      [] val.t = "bool" -> Ok(FloatV(IF val.b THEN "1.0" ELSE "0.0"))
      [] val.t = "str" ->
            IF val.v \in DOMAIN IntOfStr THEN Ok(FloatV(FloatOfInt(IntOfStr[val.v])))
            ELSE Raise("ValueError")
      [] OTHER -> Raise("TypeError")

\* str(val); the repr of a container is abbreviated
PyStr(val) ==
    CASE val.t = "str" -> Ok(val)
      [] val.t = "null" -> Ok(StrV("None"))
      [] val.t = "bool" -> Ok(StrV(IF val.b THEN "True" ELSE "False"))
      [] val.t = "int" -> Ok(StrV(StrOfInt(val.i)))
      [] val.t = "float" -> Ok(StrV(val.f))
      [] val.t = "list" -> Ok(StrV("[...]"))
      [] val.t = "dict" -> Ok(StrV("{...}"))

\* the keys of a dict as a list, in an order the model does not track
KeyList(d) ==
    CHOOSE l \in [1..Cardinality(DOMAIN d.m) -> DOMAIN d.m] :
        {l[n] : n \in DOMAIN l} = DOMAIN d.m

\* no str of the model holds a comma or white space
_convert_list(val) ==
    CASE val.t = "list" -> Ok(val)
      [] val.t = "str" -> Ok(ListV(<<val>>))
      [] val.t = "dict" -> Ok(ListV([n \in 1..Cardinality(DOMAIN val.m) |->
                                        StrV(KeyList(val)[n])]))
      [] OTHER -> Raise("TypeError")

\* json.loads(val) of a str; the strings that are no JSON text go to the
\* key=value split and have no "=" in them.  The lists of the model hold
\* strings of one character, which dict() refuses.
_convert_dict(val) ==
    CASE val.t = "dict" -> Ok(val)
      [] val.t = "str" ->
            CASE val.v \in DOMAIN IntOfStr -> Ok(IntV(IntOfStr[val.v]))
              [] val.v = "true" -> Ok(BoolV(TRUE))
              [] val.v = "false" -> Ok(BoolV(FALSE))
              [] val.v = "null" -> Ok(Null)
              [] OTHER -> Raise("ValueError")
      [] val.t = "list" -> IF val.l = <<>> THEN Ok(EmptyDict) ELSE Raise("ValueError")
      [] OTHER -> Raise("TypeError")

\* os.path.expanduser, the converter src/example/main.py registers as 'path';
\* no str of the model begins with "~"
expanduser(val) == IF val.t = "str" THEN Ok(val) ELSE Raise("TypeError")

Callables ==
    {"int", "float", "bool", "str", "_convert_bool", "_convert_list", "_convert_dict",
     "expanduser"}

\* cast_type(val)
Call(cast_type, val) ==
    CASE cast_type = "int" -> PyInt(val)
      [] cast_type = "float" -> PyFloat(val)
      [] cast_type = "bool" -> Ok(BoolV(Truthy(val)))
      [] cast_type = "str" -> PyStr(val)
      [] cast_type = "_convert_bool" -> _convert_bool(val)
      [] cast_type = "_convert_list" -> _convert_list(val)
      [] cast_type = "_convert_dict" -> _convert_dict(val)
      [] cast_type = "expanduser" -> expanduser(val)

\* Config._cast_value with a callable
_cast_value(val, cast_type) ==
    IF cast_type = "bool" THEN _convert_bool(val) ELSE Call(cast_type, val)

\* Config.add_type_converter
add_type_converter(converters, name, converter) ==
    [n \in DOMAIN converters \cup {name} |->
        IF n = name THEN converter ELSE converters[n]]

----------------------------------------------------------------------------
(* Config.get: the result is [exc, val] *)

\* the cast argument: None, a callable or the name of a converter
NoCast == [k |-> "none", v |-> ""]
Callable(f) == [k |-> "callable", v |-> f]
Named(n) == [k |-> "name", v |-> n]

\* the loop over key.split('.'): [exc, found, val]
RECURSIVE GetWalk(_, _, _)
GetWalk(cur, keys, i) ==
    IF i > Len(keys) THEN [exc |-> "none", found |-> TRUE, val |-> cur]
    ELSE CASE cur.t = "dict" ->
                IF ~Has(cur, keys[i]) THEN [exc |-> "none", found |-> FALSE, val |-> Null]
                ELSE GetWalk(cur.m[keys[i]], keys, i + 1)
           [] cur.t = "str" ->
                IF ~StrContains(cur.v, keys[i])
                THEN [exc |-> "none", found |-> FALSE, val |-> Null]
                ELSE [exc |-> "TypeError", found |-> FALSE, val |-> Null]
           [] cur.t = "list" ->
                IF \A n \in 1..Len(cur.l) : cur.l[n] # StrV(keys[i])
                THEN [exc |-> "none", found |-> FALSE, val |-> Null]
                ELSE [exc |-> "TypeError", found |-> FALSE, val |-> Null]
           [] OTHER -> [exc |-> "TypeError", found |-> FALSE, val |-> Null]

\* the exceptions the except clause of get and of validate names
Caught == {"ValueError", "TypeError"}

get(data, converters, key, default, cast) ==
    LET walk == GetWalk(data, Split(key), 1) IN
    IF walk.exc # "none" THEN Raise(walk.exc)
    ELSE IF ~walk.found THEN Ok(default)
    ELSE IF cast.k = "none" THEN Ok(walk.val)
    ELSE IF cast.k = "name" /\ cast.v \notin DOMAIN converters THEN Ok(default)
    ELSE LET cast_type == IF cast.k = "name" THEN converters[cast.v] ELSE cast.v
             r == _cast_value(walk.val, cast_type)
         IN IF r.exc \in Caught THEN Ok(default)
            ELSE IF r.exc # "none" THEN Raise(r.exc)
            ELSE Ok(r.val)

----------------------------------------------------------------------------
(* Config._set: the result is [exc, data] *)

\* cur[k] = value and k not in cur need a dict; on a str, a list or a scalar
\* one of the two, or cur[k], raises TypeError
\* a value on the way that is no mapping gives way to a new mapping
RECURSIVE SetClobbers(_, _, _, _)
SetClobbers(cur, keys, i, value) ==
    LET here == IF cur.t = "dict" THEN cur ELSE EmptyDict IN
    IF i = Len(keys)
    THEN [exc |-> "none",
          data |-> Dict([k \in DOMAIN here.m \cup {keys[i]} |->
                            IF k = keys[i] THEN value ELSE here.m[k]])]
    ELSE LET child == IF Has(here, keys[i]) THEN here.m[keys[i]] ELSE EmptyDict
             sub == SetClobbers(child, keys, i + 1, value)
         IN [exc |-> "none",
             data |-> Dict([k \in DOMAIN here.m \cup {keys[i]} |->
                               IF k = keys[i] THEN sub.data ELSE here.m[k]])]

RECURSIVE SetFrom(_, _, _, _)
SetFrom(cur, keys, i, value) ==
    IF cur.t # "dict" THEN [exc |-> "TypeError", data |-> cur]
    ELSE IF i = Len(keys)
    THEN [exc |-> "none",
          data |-> Dict([k \in DOMAIN cur.m \cup {keys[i]} |->
                            IF k = keys[i] THEN value ELSE cur.m[k]])]
    ELSE LET child == IF Has(cur, keys[i]) THEN cur.m[keys[i]] ELSE EmptyDict
             sub == SetFrom(child, keys, i + 1, value)
         IN IF sub.exc # "none" THEN [exc |-> sub.exc, data |-> cur]
            ELSE [exc |-> "none",
                  data |-> Dict([k \in DOMAIN cur.m \cup {keys[i]} |->
                                    IF k = keys[i] THEN sub.data ELSE cur.m[k]])]

\* the dotted key used as one literal key of the top level
SetFlat(data, key, value) ==
    [exc |-> "none",
     data |-> Dict([k \in DOMAIN data.m \cup {key} |->
                       IF k = key THEN value ELSE data.m[k]])]

_set(data, key, value) == SetFrom(data, Split(key), 1, value)

----------------------------------------------------------------------------
(* Config.validate: the result is [exc, data] *)

\* a rule of the schema: rules.get("required", False), rules.get("default",
\* None) and rules.get("cast", None) of the entry of key
Rule(key, required, default, cast) ==
    [key |-> key, required |-> required, default |-> default, cast |-> cast]

\* the body of the loop for one key
ValidateKey(data, converters, rule) ==
    LET current == get(data, converters, rule.key, Null, NoCast) IN
    IF current.exc # "none" THEN [exc |-> current.exc, data |-> data]
    ELSE IF current.val = Null
    THEN IF rule.required THEN [exc |-> "ValueError", data |-> data]
         ELSE IF rule.default # Null THEN _set(data, rule.key, rule.default)
         ELSE [exc |-> "none", data |-> data]
    ELSE IF rule.cast.k = "none" THEN [exc |-> "none", data |-> data]
    ELSE IF rule.cast.k = "name"
         \* 'str' object is not callable, caught; then cast_type.__name__
         THEN [exc |-> "AttributeError", data |-> data]
    ELSE LET converted == _cast_value(current.val, rule.cast.v) IN
         IF converted.exc \in Caught THEN [exc |-> "ValueError", data |-> data]
         ELSE IF converted.exc # "none" THEN [exc |-> converted.exc, data |-> data]
         ELSE LET written == _set(data, rule.key, converted.val)
              IN IF written.exc \in Caught THEN [exc |-> "ValueError", data |-> data]
                 ELSE written

\* for key, rules in schema.items(): the first exception ends the loop and
\* leaves what the keys before it wrote
RECURSIVE ValidateFrom(_, _, _, _)
ValidateFrom(data, converters, schema, i) ==
    IF i > Len(schema) THEN [exc |-> "none", data |-> data]
    ELSE LET one == ValidateKey(data, converters, schema[i])
         IN IF one.exc # "none" THEN one
            ELSE ValidateFrom(one.data, converters, schema, i + 1)

validate(data, converters, schema) == ValidateFrom(data, converters, schema, 1)

----------------------------------------------------------------------------
(* ConfigItem and the declarative validation: add_config_item,              *)
(* validate_item, validate_all                                              *)

\* the dataclass ConfigItem; description is left out.  choices is None
\* (on = FALSE) or a set of values
NoChoices == [on |-> FALSE, of |-> {}]
Choices(values) == [on |-> TRUE, of |-> values]

ConfigItem(key, default, type, required, choices, min_value, max_value) ==
    [key |-> key, default |-> default, type |-> type, required |-> required,
     choices |-> choices, min_value |-> min_value, max_value |-> max_value]

\* add_config_item: the result is [exc, data, metadata]; the item is stored
\* before its default is written
add_config_item(data, metadata, item) ==
    LET stored == [k \in DOMAIN metadata \cup {item.key} |->
                      IF k = item.key THEN item ELSE metadata[k]]
    IN IF item.default = Null
       THEN [exc |-> "none", data |-> data, metadata |-> stored]
       ELSE LET written == _set(data, item.key, item.default)
            IN [exc |-> written.exc, data |-> written.data, metadata |-> stored]

\* isinstance(value, (int, float)), a bool being an int, and value < bound,
\* value > bound for a bound that is an int: inf is above every int
IsNumber(value) == value.t \in {"int", "bool", "float"}
NumberOf(value) ==
    CASE value.t = "int" -> value.i
      [] value.t = "bool" -> IF value.b THEN 1 ELSE 0
      [] value.t = "float" -> IntOfFloat[value.f]
IsInf(value) == value.t = "float" /\ value.f = "inf"
Below(value, bound) == ~IsInf(value) /\ NumberOf(value) < bound.i
Above(value, bound) == IsInf(value) \/ NumberOf(value) > bound.i

\* value not in metadata.choices, a set: hashing a list or a dict raises
Unhashable(value) == value.t \in {"list", "dict"}

\* validate_item: the result is [exc, valid]
validate_item(converters, metadata, key, value) ==
    IF key \notin DOMAIN metadata THEN [exc |-> "none", valid |-> TRUE]
    ELSE LET item == metadata[key]
             typed ==
                IF item.type.k = "none" THEN Ok(value)
                ELSE IF item.type.k = "name" /\ item.type.v \notin DOMAIN converters
                THEN Raise("unknown")
                ELSE _cast_value(value, IF item.type.k = "name"
                                        THEN converters[item.type.v] ELSE item.type.v)
         IN IF typed.exc = "unknown" \/ typed.exc \in Caught
            THEN [exc |-> "none", valid |-> FALSE]
            ELSE IF typed.exc # "none" THEN [exc |-> typed.exc, valid |-> FALSE]
            ELSE IF item.choices.on /\ Unhashable(value)
            THEN [exc |-> "TypeError", valid |-> FALSE]
            ELSE IF item.choices.on /\ value \notin item.choices.of
            THEN [exc |-> "none", valid |-> FALSE]
            ELSE IF /\ IsNumber(value)
                    /\ \/ item.min_value # Null /\ Below(value, item.min_value)
                       \/ item.max_value # Null /\ Above(value, item.max_value)
            THEN [exc |-> "none", valid |-> FALSE]
            ELSE [exc |-> "none", valid |-> TRUE]

\* validate_all: the result is [exc, errors], errors being the keys of the
\* returned dict; one item of the loop gives "ok", "error" or an exception
ValidateOne(data, converters, metadata, key) ==
    LET value == get(data, converters, key, Null, NoCast) IN
    IF value.exc # "none" THEN value.exc
    ELSE IF value.val = Null
    THEN IF metadata[key].required THEN "error" ELSE "ok"
    ELSE LET checked == validate_item(converters, metadata, key, value.val)
         IN IF checked.exc # "none" THEN checked.exc
            ELSE IF checked.valid THEN "ok" ELSE "error"

validate_all(data, converters, metadata) ==
    LET raised == {k \in DOMAIN metadata :
                      ValidateOne(data, converters, metadata, k) \notin {"ok", "error"}}
    IN IF raised # {}
       THEN [exc |-> ValidateOne(data, converters, metadata, CHOOSE k \in raised : TRUE),
             errors |-> {}]
       ELSE [exc |-> "none",
             errors |-> {k \in DOMAIN metadata :
                            ValidateOne(data, converters, metadata, k) = "error"}]

----------------------------------------------------------------------------
(* The threads that call into the store: the caller's and the ConfigReloader *)
(* thread of _start_auto_reload                                             *)

Threads == {"main", "reloader"}
Idle == [pc |-> "idle"]
NoThreads == [t \in Threads |-> Idle]

----------------------------------------------------------------------------
(* The store as a state machine: one action per public call *)

ListenerNames == {"L1", "L2"}

Init ==
    /\ config_data = EmptyDict
    /\ config_files = <<>>
    /\ change_listeners = <<>>
    /\ fs = FsInit
    /\ yaml \in BOOLEAN
    /\ type_converters = BuiltinConverters
    /\ config_metadata = <<>>
    /\ threads = NoThreads
    /\ last = [op |-> "init", exc |-> "none", was |-> EmptyDict]
    /\ log = <<>>

Apply(op, r) ==
    /\ config_data' = r.data
    /\ config_files' = r.files
    /\ log' = r.log
    /\ last' = [op |-> op, exc |-> r.exc, was |-> config_data]

Load(filepath, priority) ==
    /\ Len(config_files) < MaxSources
    /\ Apply("load", load(config_data, config_files, change_listeners, fs, yaml,
                          filepath, priority))
    /\ UNCHANGED <<change_listeners, fs, yaml, type_converters,
                 config_metadata, threads>>

LoadEnv(prefix) ==
    /\ Apply("load_env", load_env(config_data, config_files, change_listeners, prefix))
    /\ UNCHANGED <<change_listeners, fs, yaml, type_converters,
                 config_metadata, threads>>

Reload ==
    /\ Apply("reload", reload(config_data, config_files, change_listeners, fs, yaml))
    /\ UNCHANGED <<change_listeners, fs, yaml, type_converters,
                 config_metadata, threads>>

AddChangeListener(name, raises) ==
    /\ \/ Len(change_listeners) < MaxListeners
       \/ ListenerIndex(change_listeners, name) # {}
    /\ change_listeners' = add_change_listener(change_listeners, PlainListener(name, raises))
    /\ last' = [op |-> "add_change_listener", exc |-> "none", was |-> config_data,
                name |-> name, raises |-> raises]
    /\ log' = <<>>
    /\ UNCHANGED <<config_data, config_files, fs, yaml, type_converters,
                 config_metadata, threads>>

RemoveChangeListener(name) ==
    /\ change_listeners' = remove_change_listener(change_listeners, name)
    /\ last' = [op |-> "remove_change_listener", exc |-> "none", was |-> config_data,
                name |-> name]
    /\ log' = <<>>
    /\ UNCHANGED <<config_data, config_files, fs, yaml, type_converters,
                 config_metadata, threads>>

Watch(key, raises) ==
    /\ \/ Len(change_listeners) < MaxListeners
       \/ ListenerIndex(change_listeners, "watch_" \o key) # {}
    /\ change_listeners' = watch(change_listeners, key, raises)
    /\ last' = [op |-> "watch", exc |-> "none", was |-> config_data,
                name |-> "watch_" \o key, raises |-> raises]
    /\ log' = <<>>
    /\ UNCHANGED <<config_data, config_files, fs, yaml, type_converters,
                 config_metadata, threads>>

\* the environment of the store: a tracked file is deleted
DeleteFile(filepath) ==
    /\ fs[filepath] # "absent"
    /\ fs' = [fs EXCEPT ![filepath] = "absent"]
    /\ last' = [op |-> "delete_file", exc |-> "none", was |-> config_data]
    /\ log' = <<>>
    /\ UNCHANGED <<config_data, config_files, change_listeners, yaml, type_converters,
                 config_metadata, threads>>

Next ==
    \/ \E f \in Files, p \in Priorities : Load(f, p)
    \/ \E prefix \in Prefixes : LoadEnv(prefix)
    \/ Reload
    \/ \E n \in ListenerNames, r \in BOOLEAN : AddChangeListener(n, r)
    \/ \E n \in ListenerNames \cup {"watch_" \o k : k \in DottedKeys} : RemoveChangeListener(n)
    \/ \E k \in DottedKeys, r \in BOOLEAN : Watch(k, r)
    \/ \E f \in Removable : DeleteFile(f)

Spec == Init /\ [][Next]_vars

\* the layered store on its own: sources, overlay, reload, no listener registered
NextStore ==
    \/ \E f \in Files, p \in Priorities : Load(f, p)
    \/ \E prefix \in Prefixes : LoadEnv(prefix)
    \/ Reload
    \/ \E f \in Removable : DeleteFile(f)

SpecStore == Init /\ [][NextStore]_vars

\* the notification bus: listeners and one watch around load and load_env
BusPriorities == {0, 1}
BusPrefixes == {"APP_"}
BusKeys == {"a.b"}

NextBus ==
    \/ \E f \in Files, p \in BusPriorities : Load(f, p)
    \/ \E prefix \in BusPrefixes : LoadEnv(prefix)
    \/ \E n \in ListenerNames, r \in BOOLEAN : AddChangeListener(n, r)
    \/ \E n \in ListenerNames \cup {"watch_" \o k : k \in BusKeys} : RemoveChangeListener(n)
    \/ \E k \in BusKeys : Watch(k, FALSE)

SpecBus == Init /\ [][NextBus]_vars

\* the accessors on their own: one call of get, validate, _set or _merge_dict
\* on a tree earlier loads have left, after at most one add_type_converter
SampleTrees ==
    {EmptyDict,
     Content("base.json"),
     Content("extra.yaml"),
     Dict("a" :> StrV("maybe") @@ "c" :> StrV("maybe")),
     Dict("a" :> ListV(<<StrV("b")>>) @@ "c" :> StrV("Yes")),
     Dict("a" :> Dict("b" :> StrV("true")) @@ "c" :> FloatV("inf")),
     Dict("a" :> Dict("b" :> BoolV(FALSE) @@ "c" :> Null) @@ "c" :> StrV("No")),
     Dict("a" :> Dict("b" :> Dict("c" :> IntV(0))))}

SampleKeys == {"a", "a.b", "a.b.c", "c"}
SampleDefaults == {Null, IntV(42)}
SampleCasts ==
    {NoCast, Callable("int"), Callable("bool"), Callable("str"),
     Named("int"), Named("bool"), Named("path"), Named("nope")}
SampleValues == {Null, StrV("1"), IntV(7), EmptyDict}
SampleOverrides ==
    {EmptyDict,
     Content("over.json"),
     Content("extra.yaml"),
     Dict("a" :> Dict("b" :> Null @@ "e" :> Dict("c" :> IntV(7)))),
     Dict("a" :> Dict("b" :> Dict("e" :> StrV("2"))) @@ "e" :> EmptyDict)}

\* the values and callables _cast_value is tried on
SampleScalars ==
    {Null, BoolV(TRUE), BoolV(FALSE), IntV(0), IntV(7), FloatV("inf"),
     StrV("true"), StrV("TRUE"), StrV("Yes"), StrV("1"), StrV("false"), StrV("No"),
     StrV("0"), StrV("maybe"), StrV(""), EmptyDict, ListV(<<StrV("b")>>)}
SampleCallables == {"bool", "_convert_bool", "int", "str"}

\* the rules a schema is made of: <<required, default, cast>> for a key
RuleShapes ==
    {<<TRUE, Null, NoCast>>, <<FALSE, StrV("1"), NoCast>>, <<TRUE, StrV("1"), NoCast>>,
     <<FALSE, Null, Callable("int")>>, <<FALSE, StrV("1"), Callable("int")>>,
     <<FALSE, Null, Named("int")>>, <<FALSE, Null, Named("path")>>,
     <<FALSE, Null, Named("nope")>>}
Rules == {Rule(k, sh[1], sh[2], sh[3]) : k \in {"a.b", "c", "a"}, sh \in RuleShapes}

\* the schemas: up to MaxRules rules in the order of the dict, no key twice
Schemas ==
    {sch \in UNION {[1..n -> Rules] : n \in 1..MaxRules} :
        \A i, j \in DOMAIN sch : i # j => sch[i].key # sch[j].key}

InitTree ==
    /\ config_data \in SampleTrees
    /\ config_files = <<>>
    /\ change_listeners = <<>>
    /\ fs = FsInit
    /\ yaml = TRUE
    /\ type_converters = BuiltinConverters
    /\ config_metadata = <<>>
    /\ threads = NoThreads
    /\ last = [op |-> "init", exc |-> "none", was |-> config_data]
    /\ log = <<>>

AddTypeConverter(name, converter) ==
    /\ last.op = "init"
    /\ type_converters' = add_type_converter(type_converters, name, converter)
    /\ last' = [op |-> "add_type_converter", exc |-> "none", was |-> config_data]
    /\ log' = <<>>
    /\ UNCHANGED <<config_data, config_files, change_listeners, fs, yaml,
                 config_metadata, threads>>

FirstCall == last.op \in {"init", "add_type_converter"}

Get(key, default, cast) ==
    /\ LET r == get(config_data, type_converters, key, default, cast)
       IN last' = [op |-> "get", exc |-> r.exc, was |-> config_data, key |-> key,
                   default |-> default, cast |-> cast, ret |-> r.val]
    /\ log' = <<>>
    /\ UNCHANGED <<config_data, config_files, change_listeners, fs, yaml, type_converters,
                 config_metadata, threads>>

Validate(schema) ==
    /\ LET r == validate(config_data, type_converters, schema)
       IN /\ config_data' = r.data
          /\ last' = [op |-> "validate", exc |-> r.exc, was |-> config_data,
                      schema |-> schema]
    /\ log' = <<>>
    /\ UNCHANGED <<config_files, change_listeners, fs, yaml, type_converters,
                 config_metadata, threads>>

Set(key, value) ==
    /\ LET r == _set(config_data, key, value)
       IN /\ config_data' = r.data
          /\ last' = [op |-> "_set", exc |-> r.exc, was |-> config_data,
                      key |-> key, value |-> value]
    /\ log' = <<>>
    /\ UNCHANGED <<config_files, change_listeners, fs, yaml, type_converters,
                 config_metadata, threads>>

CastValue(val, cast_type) ==
    /\ LET r == _cast_value(val, cast_type)
       IN last' = [op |-> "_cast_value", exc |-> r.exc, was |-> config_data,
                   val |-> val, cast |-> cast_type, ret |-> r.val]
    /\ log' = <<>>
    /\ UNCHANGED <<config_data, config_files, change_listeners, fs, yaml, type_converters,
                 config_metadata, threads>>

MergeDict(override) ==
    /\ config_data' = _merge_dict(config_data, override)
    /\ last' = [op |-> "_merge_dict", exc |-> "none", was |-> config_data,
                override |-> override]
    /\ log' = <<>>
    /\ UNCHANGED <<config_files, change_listeners, fs, yaml, type_converters,
                 config_metadata, threads>>

NextTree ==
    \/ \E n \in {"path", "int"} : AddTypeConverter(n, "expanduser")
    \/ FirstCall /\ \E k \in SampleKeys, d \in SampleDefaults, c \in SampleCasts : Get(k, d, c)
    \/ FirstCall /\ \E sch \in Schemas : Validate(sch)
    \/ FirstCall /\ \E k \in SampleKeys, v \in SampleValues : Set(k, v)
    \/ FirstCall /\ \E v \in SampleScalars, f \in SampleCallables : CastValue(v, f)
    \/ FirstCall /\ \E o \in SampleOverrides : MergeDict(o)

SpecTree == InitTree /\ [][NextTree]_vars

\* the declared items: items are registered on a sampled tree, one source is
\* loaded and reloaded, validate_all and validate_item are called
SampleItems ==
    {ConfigItem("c", Null, Callable("int"), TRUE, NoChoices, IntV(1), IntV(8)),
     ConfigItem("c", Null, Named("nope"), FALSE, NoChoices, Null, Null),
     ConfigItem("c", Null, Named("bool"), FALSE, Choices({StrV("1"), StrV("Yes")}), Null, Null),
     ConfigItem("a", Null, NoCast, FALSE, Choices({StrV("1"), IntV(7)}), Null, IntV(2)),
     ConfigItem("a.b", Null, Named("int"), TRUE, NoChoices, Null, Null),
     ConfigItem("e", StrV("1"), Named("int"), TRUE, NoChoices, Null, Null)}

ItemFiles == {"base.json", "over.json", "gone.json"}

AddConfigItem(item) ==
    /\ \/ Cardinality(DOMAIN config_metadata) < MaxItems
       \/ item.key \in DOMAIN config_metadata
    /\ LET r == add_config_item(config_data, config_metadata, item)
       IN /\ config_data' = r.data
          /\ config_metadata' = r.metadata
          /\ last' = [op |-> "add_config_item", exc |-> r.exc, was |-> config_data,
                      key |-> item.key]
    /\ log' = <<>>
    /\ UNCHANGED <<config_files, change_listeners, fs, yaml, type_converters, threads>>

ValidateItem(key, value) ==
    /\ LET r == validate_item(type_converters, config_metadata, key, value)
       IN last' = [op |-> "validate_item", exc |-> r.exc, was |-> config_data,
                   key |-> key, value |-> value, ret |-> r.valid]
    /\ log' = <<>>
    /\ UNCHANGED <<config_data, config_files, change_listeners, fs, yaml, type_converters,
                   config_metadata, threads>>

ValidateAll ==
    /\ LET r == validate_all(config_data, type_converters, config_metadata)
       IN last' = [op |-> "validate_all", exc |-> r.exc, was |-> config_data,
                   ret |-> r.errors]
    /\ log' = <<>>
    /\ UNCHANGED <<config_data, config_files, change_listeners, fs, yaml, type_converters,
                   config_metadata, threads>>

NextItems ==
    \/ \E item \in SampleItems : AddConfigItem(item)
    \/ \E k \in {"a", "c"}, v \in SampleScalars : ValidateItem(k, v)
    \/ ValidateAll
    \/ config_files = <<>> /\ \E f \in ItemFiles : Load(f, DefaultPriority)
    \/ Reload

SpecItems == InitTree /\ [][NextItems]_vars


----------------------------------------------------------------------------
(* Vocabulary of the properties *)

Paths == {<<"a">>, <<"a", "b">>, <<"a", "c">>, <<"c">>}

\* the value a tree holds at a path: found is FALSE when a segment is missing
\* or the walk meets a value that is no mapping
RECURSIVE Lookup(_, _)
Lookup(tree, path) ==
    IF path = <<>> THEN [found |-> TRUE, val |-> tree]
    ELSE IF IsDict(tree) /\ Has(tree, Head(path))
         THEN Lookup(tree.m[Head(path)], Tail(path))
         ELSE [found |-> FALSE, val |-> Null]

\* the value at a dotted key, None standing for a missing one
ValueAtKey(tree, key) == Lookup(tree, Split(key)).val

\* the merge of the parsed sources of a list, first to last, from the empty tree
RECURSIVE FoldSources(_)
FoldSources(files) ==
    IF files = <<>> THEN EmptyDict
    ELSE _merge_dict(FoldSources(SubSeq(files, 1, Len(files) - 1)),
                     Content(files[Len(files)][1]))

IsAscending(files) ==
    \A i, j \in 1..Len(files) : i < j => files[i][2] <= files[j][2]

\* new is old with e put behind the last entry of priority <= e's
PlacedBehindEquals(old, new, e) ==
    \E n \in 0..Len(old) :
        /\ new = SubSeq(old, 1, n) \o <<e>> \o SubSeq(old, n + 1, Len(old))
        /\ \A i \in 1..n : old[i][2] <= e[2]
        /\ \A i \in (n + 1)..Len(old) : old[i][2] > e[2]

Count(files, e) == Cardinality({i \in 1..Len(files) : files[i] = e})

Succeeded(op) == last.op = op /\ last.exc = "none"
Failed(op) == last.op = op /\ last.exc # "none"

\* the top-level keys only the environment overlay can contribute
EnvKeys(prefix) ==
    {ShortKey(k, prefix) : k \in {n \in DOMAIN Environ : StartsWith(n, prefix)}}

EnvOnlyKeys ==
    UNION {EnvKeys(prefix) : prefix \in Prefixes}
        \ UNION {DOMAIN Content(f).m : f \in Files}

EnvOnlyAbsent == \A k \in EnvOnlyKeys : ~Has(config_data, k)

----------------------------------------------------------------------------
(* C1: two loads with distinct priorities, both successful, leave the same  *)
(* stored tree in either order, and on every key where the two sources     *)
(* conflict the value of the source of higher priority is the stored one   *)
(* (no tracked source having a priority above both).                       *)

TwoLoads(A, pA, B, pB) ==
    LET first == load(config_data, config_files, change_listeners, fs, yaml, A, pA)
        second == load(first.data, first.files, change_listeners, fs, yaml, B, pB)
    IN [ok |-> first.exc = "none" /\ second.exc = "none", data |-> second.data]

HigherWins(tree, hi, lo, top) ==
    (\A i \in 1..Len(config_files) : config_files[i][2] <= top) =>
        \A path \in Paths :
            LET h == Lookup(Content(hi), path)
                l == Lookup(Content(lo), path)
            IN (h.found /\ l.found /\ ~IsDict(h.val)) =>
                    Lookup(tree, path) = [found |-> TRUE, val |-> h.val]

LoadOrderIrrelevant ==
    Len(config_files) + 2 <= MaxSources =>
        \A A, B \in Files, pA, pB \in Priorities :
            LET ab == TwoLoads(A, pA, B, pB)
                ba == TwoLoads(B, pB, A, pA)
            IN (pA < pB /\ ab.ok) =>
                    /\ ba.ok
                    /\ ab.data = ba.data
                    /\ HigherWins(ab.data, B, A, pB)
                    /\ HigherWins(ba.data, B, A, pB)

\* over.json was loaded at 0 and base.json at 1: base.json's a.b is the stored one
LoadOrderWitness ==
    /\ Succeeded("load")
    /\ config_files = << <<"over.json", 0>>, <<"base.json", 1>> >>
    /\ Lookup(config_data, <<"a", "b">>).val = StrV("1")
    /\ Lookup(config_data, <<"a", "c">>).val = StrV("2")

----------------------------------------------------------------------------
(* C2: a successful load puts the new entry behind the tracked entries of   *)
(* lower or equal priority, keeps the list ascending, and stores the merge *)
(* of all tracked sources in that order, begun from the empty tree.        *)

LoadRebuildsFromSources ==
    [][(last'.op = "load" /\ last'.exc = "none") =>
            /\ \E f \in Files, p \in Priorities :
                    PlacedBehindEquals(config_files, config_files', <<f, p>>)
            /\ IsAscending(config_files')
            /\ config_data' = FoldSources(config_files')]_vars

\* two sources of equal priority, the second one loaded covering the first,
\* and an overlay of the tree before the load that is gone after it
LoadRebuildsWitness ==
    /\ Succeeded("load")
    /\ config_files = << <<"base.json", 1>>, <<"over.json", 1>> >>
    /\ Lookup(config_data, <<"a", "b">>).val = StrV("2")
    /\ ~Has(config_data, "e")

----------------------------------------------------------------------------
(* C3: reload() keeps the (source, priority) pairs of the tracked list.     *)

ReloadKeepsPriorities ==
    [][(last'.op = "reload" /\ last'.exc = "none") =>
            \A f \in Files, p \in Priorities :
                Count(config_files', <<f, p>>) = Count(config_files, <<f, p>>)]_vars

----------------------------------------------------------------------------
(* C4: after a reload() that returns normally every key only the           *)
(* environment overlay contributed is absent from the stored tree, and an  *)
(* absent one stays absent until load_env is called.                       *)

ReloadDropsEnvAlways ==
    [][(last'.op = "reload" /\ last'.exc = "none") => EnvOnlyAbsent']_vars

\* the same for a reload() of at least one tracked source
ReloadDropsEnv ==
    [][/\ (last'.op = "reload" /\ last'.exc = "none" /\ config_files # <<>>)
            => EnvOnlyAbsent'
       /\ (EnvOnlyAbsent /\ last'.op # "load_env") => EnvOnlyAbsent']_vars

\* a reload that found an overlaid key in the tree and left a tree without it
ReloadDropsEnvWitness ==
    /\ Succeeded("reload")
    /\ config_files # <<>>
    /\ \E k \in EnvOnlyKeys : Has(last.was, k)
    /\ EnvOnlyAbsent
    /\ config_data # EmptyDict

----------------------------------------------------------------------------
(* C5: every load_env call invokes each registered listener with the tree  *)
(* before and the tree after the overlay.                                  *)

ToldOnce ==
    /\ Len(log) = Len(change_listeners)
    /\ \A i \in 1..Len(log) :
            /\ log[i].name = change_listeners[i].name
            /\ log[i].old = last.was
            /\ log[i].new = config_data

LoadEnvNotifies == last.op = "load_env" => ToldOnce

----------------------------------------------------------------------------
(* C6: a successful load invokes every registered listener exactly once,   *)
(* in order, with the stored tree of before the load and the one after it. *)

LoadNotifiesOnce == Succeeded("load") => ToldOnce

\* a second load: the listeners are told a tree that is not the empty one as old
LoadNotifiesWitness ==
    /\ Succeeded("load")
    /\ Len(log) = 2
    /\ Len(config_files) = 2
    /\ log[1].old # EmptyDict
    /\ log[1].new = config_data
    /\ log[1].old # log[1].new

----------------------------------------------------------------------------
(* C7: the callback of a watch runs on a notification exactly when the     *)
(* value at its key in the old tree differs from the one in the new tree.  *)

IsWatchName(name) == name \in {"watch_" \o k : k \in DottedKeys}
WatchedKey(name) == CHOOSE k \in DottedKeys : name = "watch_" \o k

WatchFiresIffChanged ==
    \A i \in 1..Len(log) :
        IsWatchName(log[i].name) =>
            (log[i].called <=>
                ValueAtKey(log[i].old, WatchedKey(log[i].name))
                    # ValueAtKey(log[i].new, WatchedKey(log[i].name)))

----------------------------------------------------------------------------
(* C8: a listener that fails during the notification of a load neither     *)
(* keeps another listener from being invoked nor makes the load fail.      *)

ListenerFailuresIsolated ==
    (last.op = "load" /\ \E i \in 1..Len(log) : log[i].raised) =>
        /\ last.exc = "none"
        /\ Len(log) = Len(change_listeners)
        /\ \A i \in 1..Len(log) : log[i].name = change_listeners[i].name

\* the first listener failed and the second was invoked all the same
ListenerFailuresWitness ==
    /\ Succeeded("load")
    /\ Len(log) = 2
    /\ log[1].raised
    /\ ~log[2].raised /\ log[2].called

----------------------------------------------------------------------------
(* C9: a load that fails leaves the stored tree as it was and invokes no   *)
(* listener.                                                               *)

FailedLoadKeepsTree ==
    Failed("load") => (config_data = last.was /\ log = <<>>)

\* malformed content met while the tracked sources were parsed again
FailedLoadWitness ==
    /\ last.op = "load" /\ last.exc = "JSONDecodeError"
    /\ Len(config_files) = 2
    /\ config_data = Content("base.json")
    /\ change_listeners # <<>>

----------------------------------------------------------------------------
(* C10: a load that fails with an unsupported format or a parse error      *)
(* leaves the tracked source list as it was.                               *)

FormatOrParseErrors == {"ValueError", "JSONDecodeError", "YAMLError", "ParsingError"}

FailedLoadKeepsSources ==
    [][(last'.op = "load" /\ last'.exc \in FormatOrParseErrors) =>
            config_files' = config_files]_vars

----------------------------------------------------------------------------
(* C11: a get whose key's path is not fully present in the stored tree      *)
(* returns the default it was given and raises nothing, also when the walk *)
(* meets a value that is no mapping (a scalar or a list) before the        *)
(* segments are used up.                                                   *)

GetDefaultsWhenMissing ==
    (last.op = "get" /\ ~Lookup(last.was, Split(last.key)).found) =>
        last.exc = "none" /\ last.ret = last.default

----------------------------------------------------------------------------
(* C12: get is lenient.  For a key the stored tree holds, a get without a   *)
(* cast returns the stored value as it is; a get with a cast returns the   *)
(* coerced value, and when the coercion fails (a converter name the        *)
(* registry does not know, or the converter raising) it returns the        *)
(* default; it never raises.                                               *)

\* the coercion of val by a callable or by the registry entry of a name
Coerce(converters, val, cast) ==
    IF cast.k = "name"
    THEN IF cast.v \in DOMAIN converters THEN _cast_value(val, converters[cast.v])
         ELSE Raise("LookupFailed")
    ELSE _cast_value(val, cast.v)

GetIsLenient ==
    (last.op = "get" /\ Lookup(last.was, Split(last.key)).found) =>
        LET stored == Lookup(last.was, Split(last.key)).val IN
        /\ last.exc = "none"
        /\ last.cast = NoCast => last.ret = stored
        /\ last.cast # NoCast =>
                LET c == Coerce(type_converters, stored, last.cast)
                IN last.ret = IF c.exc = "none" THEN c.val ELSE last.default

----------------------------------------------------------------------------
(* C13: validate treats a declared key by what the tree holds at it.  A key *)
(* that is absent and required makes the call raise the missing-key error  *)
(* (a ValueError); absent with a default, the default is written at the    *)
(* key; present with a cast, the coerced value is written back, and the    *)
(* call raises the cast error (a ValueError) when the coercion fails.      *)
(* Stated for the schemas of one key, whose rule meets the tree the call   *)
(* found.                                                                  *)

ValidateByRule ==
    (last.op = "validate" /\ Len(last.schema) = 1) =>
        LET rule == last.schema[1]
            at == Lookup(last.was, Split(rule.key))
            now == Lookup(config_data, Split(rule.key))
        IN IF ~at.found
           THEN IF rule.required THEN last.exc = "ValueError"
                ELSE IF rule.default # Null
                     THEN last.exc = "none" /\ now = [found |-> TRUE, val |-> rule.default]
                     ELSE last.exc = "none" /\ config_data = last.was
           ELSE IF rule.cast # NoCast
                THEN LET c == Coerce(type_converters, at.val, rule.cast)
                     IN IF c.exc = "none"
                        THEN last.exc = "none" /\ now = [found |-> TRUE, val |-> c.val]
                        ELSE last.exc = "ValueError"
                ELSE last.exc = "none" /\ config_data = last.was

----------------------------------------------------------------------------
(* C14: a validate that raises for a missing required key or a failed cast  *)
(* leaves the stored tree as the call found it: no default and no coerced  *)
(* value of another key of the schema has been written.                    *)

FailedValidateKeepsTree ==
    (last.op = "validate" /\ last.exc = "ValueError") => config_data = last.was

----------------------------------------------------------------------------
(* C15: validate coerces through the registry.  For a key that holds a      *)
(* value other than null and a cast given as a converter name, validate    *)
(* writes back what the registry entry of that name makes of the value,    *)
(* which is what get(key, cast=name) returns, and with a name the registry *)
(* does not know the call raises the coercion error (a ValueError).        *)

ValidateUsesRegistry ==
    (last.op = "validate" /\ Len(last.schema) = 1) =>
        LET rule == last.schema[1]
            at == Lookup(last.was, Split(rule.key))
            now == Lookup(config_data, Split(rule.key))
            c == Coerce(type_converters, at.val, rule.cast)
        IN (rule.cast.k = "name" /\ at.found /\ at.val # Null) =>
                IF c.exc = "none"
                THEN /\ last.exc = "none"
                     /\ now = [found |-> TRUE, val |-> c.val]
                     /\ Ok(now.val) = get(last.was, type_converters, rule.key, Null, rule.cast)
                ELSE last.exc = "ValueError"

----------------------------------------------------------------------------
(* C16: the coercion to bool is strict.  A bool is returned as it is; a     *)
(* str that reads true, yes or 1 in any case gives True, one that reads    *)
(* false, no or 0 gives False; every other input makes the coercion raise  *)
(* instead of giving the truth value of the input.                         *)

BoolCoercionIsStrict ==
    (last.op = "_cast_value" /\ last.cast \in {"bool", "_convert_bool"}) =>
        CASE last.val.t = "bool" -> last.exc = "none" /\ last.ret = last.val
          [] last.val.t = "str" /\ Lower(last.val.v) \in {"true", "yes", "1"} ->
                last.exc = "none" /\ last.ret = BoolV(TRUE)
          [] last.val.t = "str" /\ Lower(last.val.v) \in {"false", "no", "0"} ->
                last.exc = "none" /\ last.ret = BoolV(FALSE)
          [] OTHER -> last.exc # "none"

----------------------------------------------------------------------------
(* C17: the merge of a base and an override holds every key of the          *)
(* override; at a key of both whose two values are mappings it holds the   *)
(* merge of the two; at every other key of the override it holds the       *)
(* override's value, a null included; at a key of the base alone it holds  *)
(* the base's value.                                                       *)

RECURSIVE MergeLaw(_, _, _)
MergeLaw(base, override, result) ==
    /\ IsDict(result)
    /\ DOMAIN result.m = DOMAIN base.m \cup DOMAIN override.m
    /\ \A k \in DOMAIN override.m :
            IF Has(base, k) /\ IsDict(base.m[k]) /\ IsDict(override.m[k])
            THEN MergeLaw(base.m[k], override.m[k], result.m[k])
            ELSE result.m[k] = override.m[k]
    /\ \A k \in DOMAIN base.m \ DOMAIN override.m : result.m[k] = base.m[k]

MergeOverridesDeep ==
    last.op = "_merge_dict" => MergeLaw(last.was, last.override, config_data)

\* a null of the override replaces a bool two levels down, next to a key of
\* the base alone and a key of the override alone
MergeWitness ==
    /\ last.op = "_merge_dict"
    /\ Lookup(last.was, <<"a", "b">>) = [found |-> TRUE, val |-> BoolV(FALSE)]
    /\ Lookup(last.override, <<"a", "b">>) = [found |-> TRUE, val |-> Null]
    /\ Lookup(config_data, <<"a", "b">>) = [found |-> TRUE, val |-> Null]
    /\ Lookup(config_data, <<"a", "c">>) = [found |-> TRUE, val |-> Null]
    /\ Lookup(config_data, <<"a", "e", "c">>) = [found |-> TRUE, val |-> IntV(7)]
    /\ Lookup(config_data, <<"c">>) = [found |-> TRUE, val |-> StrV("No")]

----------------------------------------------------------------------------
(* C18: write, then read.  When no segment before the last of a dotted key  *)
(* holds a value that is no mapping, _set(key, v) returns normally, every  *)
(* segment before the last holds a mapping afterwards (the missing ones    *)
(* are created), and reading the key, by get and by _get_nested, gives v.  *)

NoCollision(tree, path) ==
    \A n \in 1..(Len(path) - 1) :
        LET node == Lookup(tree, SubSeq(path, 1, n))
        IN node.found => IsDict(node.val)

SetThenGet ==
    (last.op = "_set" /\ NoCollision(last.was, Split(last.key))) =>
        /\ last.exc = "none"
        /\ \A n \in 1..(Len(Split(last.key)) - 1) :
                LET node == Lookup(config_data, SubSeq(Split(last.key), 1, n))
                IN node.found /\ IsDict(node.val)
        /\ get(config_data, type_converters, last.key, IntV(42), NoCast) = Ok(last.value)
        /\ _get_nested(config_data, last.key) = Ok(last.value)

\* a.b.c written into the empty tree: both mappings on the way are new
SetThenGetWitness ==
    /\ last.op = "_set" /\ last.exc = "none"
    /\ last.was = EmptyDict
    /\ last.key = "a.b.c"
    /\ last.value = IntV(7)
    /\ config_data = Dict("a" :> Dict("b" :> Dict("c" :> IntV(7))))

----------------------------------------------------------------------------
(* C19: the environment overlay is flat.  load_env(prefix) leaves the tree  *)
(* it found with, for each variable whose name starts with the prefix, the *)
(* name less the prefix as one literal key of the top level holding the    *)
(* variable's value, no dotted expansion and no case folding.  With        *)
(* base.json (a.b = "1") loaded at priority 0, over.json (a.b = "2") at a  *)
(* higher priority and the variable A_B=7 overlaid under the empty prefix, *)
(* get("a.b") returns "2" and the top-level key A_B holds "7".             *)

FlatOverlay(tree, prefix) ==
    Dict([k \in DOMAIN tree.m \cup EnvKeys(prefix) |->
            IF k \in EnvKeys(prefix)
            THEN StrV(Environ[CHOOSE n \in DOMAIN Environ :
                                StartsWith(n, prefix) /\ ShortKey(n, prefix) = k])
            ELSE tree.m[k]])

----------------------------------------------------------------------------
(* C20: a notification calls every listener registered at that moment,      *)
(* inside the call that notifies, once each and in the order of            *)
(* registration: a new name is registered behind the ones there are, a     *)
(* name registered again keeps its place, a removal takes the name out     *)
(* and leaves the order of the others.  A removed listener is in the       *)
(* registry of no later state until it is registered again, so no later    *)
(* notification calls it.                                                  *)

NamesOf(listeners) == [i \in 1..Len(listeners) |-> listeners[i].name]

Without(names, name) == SelectSeq(names, LAMBDA n : n # name)

RegistrationOrderKept ==
    LET before == NamesOf(change_listeners)
        after == NamesOf(change_listeners')
    IN CASE last'.op \in {"add_change_listener", "watch"} ->
                after = IF \E i \in DOMAIN before : before[i] = last'.name
                        THEN before ELSE Append(before, last'.name)
         [] last'.op = "remove_change_listener" -> after = Without(before, last'.name)
         [] OTHER -> change_listeners' = change_listeners

ListenersToldInOrder ==
    /\ [](Succeeded("load") =>
            /\ [i \in 1..Len(log) |-> log[i].name] = NamesOf(change_listeners)
            /\ \A i \in 1..Len(log) : log[i].old = last.was /\ log[i].new = config_data)
    /\ [][RegistrationOrderKept]_vars

\* L1 removed and registered again behind L2, then a load: L2 is told first
ListenersToldWitness ==
    /\ Succeeded("load")
    /\ Len(log) = 2
    /\ log[1].name = "L2" /\ log[2].name = "L1"
    /\ NamesOf(change_listeners) = <<"L2", "L1">>

----------------------------------------------------------------------------
(* C29: a write at a dotted key one of whose segments before the last       *)
(* holds a value that is no mapping (a scalar or a list) raises and leaves *)
(* the stored tree as it was, at whichever segment the value sits; the     *)
(* value is never overwritten.                                             *)

CollisionAt(tree, path, n) ==
    LET node == Lookup(tree, SubSeq(path, 1, n))
    IN n < Len(path) /\ node.found /\ ~IsDict(node.val)

SetRefusesCollision ==
    (/\ last.op = "_set"
     /\ \E n \in 1..Len(Split(last.key)) : CollisionAt(last.was, Split(last.key), n)) =>
        /\ last.exc # "none"
        /\ config_data = last.was

\* a.b.c written where a.b holds a bool: the collision is at the second segment
SetCollisionWitness ==
    /\ last.op = "_set" /\ last.exc = "TypeError"
    /\ last.key = "a.b.c"
    /\ CollisionAt(last.was, <<"a", "b", "c">>, 2)
    /\ ~CollisionAt(last.was, <<"a", "b", "c">>, 1)
    /\ Lookup(config_data, <<"a", "b">>) = [found |-> TRUE, val |-> BoolV(FALSE)]

----------------------------------------------------------------------------
(* C21: the declarative validation reads only and does not raise.           *)
(* validate_item and validate_all leave the stored tree, the source list   *)
(* and the listeners as they are; validate_all returns normally, and the   *)
(* keys of the map it returns are the registered items that are required   *)
(* and missing from the tree, or present in it with a value validate_item  *)
(* rejects.                                                                *)

Rejected(key) ==
    LET at == Lookup(config_data, Split(key))
    IN IF at.found
       THEN ~validate_item(type_converters, config_metadata, key, at.val).valid
       ELSE config_metadata[key].required

DeclaredValidationReadsOnly ==
    /\ [](last.op = "validate_all" =>
            /\ last.exc = "none"
            /\ last.ret = {k \in DOMAIN config_metadata : Rejected(k)})
    /\ [][last'.op \in {"validate_item", "validate_all"} =>
            UNCHANGED <<config_data, config_files, change_listeners>>]_vars

----------------------------------------------------------------------------
(* C26: the default of a ConfigItem outlives loading.  After a load or a    *)
(* reload that returned normally, every registered item with a default     *)
(* other than null whose key no tracked source defines reads as that       *)
(* default through get.                                                    *)

DefaultSurvivesLoad ==
    (last.op \in {"load", "reload"} /\ last.exc = "none") =>
        \A k \in DOMAIN config_metadata :
            (/\ config_metadata[k].default # Null
             /\ \A i \in 1..Len(config_files) :
                    ~Lookup(Content(config_files[i][1]), Split(k)).found) =>
                get(config_data, type_converters, k, Null, NoCast)
                    = Ok(config_metadata[k].default)

-----------------------------------------------------------------------------
(* Watches over loads and reloads: sources are loaded, deleted and loaded  *)
(* again by reload while watches and plain listeners are registered, the   *)
(* plain ones also under the name a watch derives from its key.            *)

WatchFiles == {"base.json", "over.json", "extra.yaml"}
WatchNames == {"watch_a.b"}
RequiredC == <<Rule("c", TRUE, Null, NoCast)>>

NextWatch ==
    \/ \E f \in WatchFiles : Load(f, DefaultPriority)
    \/ Reload
    \/ \E f \in {"over.json"} : DeleteFile(f)
    \/ \E k \in DottedKeys, r \in BOOLEAN : Watch(k, r)
    \/ \E n \in WatchNames, r \in BOOLEAN : AddChangeListener(n, r)
    \/ Validate(RequiredC)

SpecWatch == Init /\ [][NextWatch]_vars

-----------------------------------------------------------------------------
(* C27: there is at most one listener under the name a watch derives from  *)
(* its key: a second watch on the key replaces the first, a plain listener *)
(* registered under "watch_" followed by the key replaces the watch, and a *)
(* later load runs only the callback registered last, once.                *)

Registered(name) == {i \in 1..Len(change_listeners) : change_listeners[i].name = name}

WatchIsReplaced ==
    /\ \A i, j \in 1..Len(change_listeners) :
           change_listeners[i].name = change_listeners[j].name => i = j
    /\ last.op = "watch" =>
           \E i \in Registered(last.name) :
               change_listeners[i] = WatchListener(WatchedKey(last.name), last.raises)
    /\ last.op = "add_change_listener" =>
           \E i \in Registered(last.name) :
               change_listeners[i] = PlainListener(last.name, last.raises)
    /\ Succeeded("load") =>
           \A i \in 1..Len(log) :
               /\ \A j \in 1..Len(log) : log[j].name = log[i].name => i = j
               /\ log[i].called =>
                      \E k \in Registered(log[i].name) :
                          change_listeners[k].raises = log[i].raised

\* the watch on a.b was registered before the one on c and again after it,
\* with another callback: it kept its place and holds the later callback
WatchIsReplacedWitness ==
    /\ last.op = "watch" /\ last.name = "watch_a.b" /\ ~last.raises
    /\ change_listeners = <<WatchListener("a.b", FALSE), WatchListener("c", TRUE)>>

-----------------------------------------------------------------------------
(* C23: during a reload the callback of a watch runs only for a key whose  *)
(* value after the reload differs from its value before the reload; a      *)
(* reload over unchanged sources runs no watch callback.                   *)

ReloadFiresOnChange ==
    Succeeded("reload") =>
        \A i \in 1..Len(log) :
            \A k \in Registered(log[i].name) :
                (change_listeners[k].kind = "watch" /\ log[i].called) =>
                    ValueAtKey(last.was, change_listeners[k].key)
                        # ValueAtKey(config_data, change_listeners[k].key)

-----------------------------------------------------------------------------
(* C24: a reload that fails on one tracked source applies nothing          *)
(* partially: the list of tracked sources still holds every source it held *)
(* before the reload and the stored tree is unchanged.                     *)

Tracked(files) == {files[i][1] : i \in 1..Len(files)}

FailedReloadKeepsAll ==
    [][(last'.op = "reload" /\ last'.exc # "none") =>
           /\ config_data' = config_data
           /\ Len(config_files') = Len(config_files)
           /\ Tracked(config_files') = Tracked(config_files)]_vars

-----------------------------------------------------------------------------
(* C28: a key that is present with the value null is not an absent key:    *)
(* validate with a required rule on such a key does not raise the error of *)
(* a missing required key, and the callback of a watch on a key that is    *)
(* absent before a load and present with null after it is run.             *)

PresentNull(tree, key) == Lookup(tree, Split(key)) = [found |-> TRUE, val |-> Null]
Absent(tree, key) == ~Lookup(tree, Split(key)).found

NullIsPresent ==
    /\ (/\ last.op = "validate"
        /\ \A i \in 1..Len(last.schema) :
               last.schema[i].required /\ PresentNull(last.was, last.schema[i].key)) =>
           last.exc # "ValueError"
    /\ Succeeded("load") =>
           \A i \in 1..Len(log) :
               \A k \in Registered(log[i].name) :
                   (/\ change_listeners[k].kind = "watch"
                    /\ Absent(log[i].old, change_listeners[k].key)
                    /\ PresentNull(log[i].new, change_listeners[k].key)) =>
                       log[i].called

-----------------------------------------------------------------------------
(* The calls of two threads, step by step.  Nothing in Config takes a lock, *)
(* so the statements of a load on the caller's thread and of the reload of *)
(* reload_worker interleave.  A thread inside a call holds its locals:     *)
(* files and i, the list and the position of the loop of reload (for a     *)
(* load of the caller the one file), and merged, the tree built by load.   *)
(* was is the tree at the time of the call, kept for last.                 *)

InCall(pc, files, i, merged, was) ==
    [pc |-> pc, files |-> files, i |-> i, merged |-> merged, was |-> was]

At(t, pc) == threads[t].pc = pc

\* cfg.load(filepath) called on the caller's thread
CallLoad(filepath) ==
    /\ threads["main"] = Idle
    /\ threads' = [threads EXCEPT !["main"] =
                      InCall("load", <<filepath>>, 1, EmptyDict, config_data)]
    /\ UNCHANGED <<config_data, config_files, change_listeners, fs, yaml,
                   type_converters, config_metadata, last, log>>

\* the call of thread t is over: load returns or raises to the caller, and
\* reload_worker catches and logs what reload raises
EndCall(t, exc) ==
    /\ threads' = [threads EXCEPT ![t] = Idle]
    /\ last' = IF t = "main"
               THEN [op |-> "load", exc |-> exc, was |-> threads[t].was,
                     filepath |-> threads[t].files[1]]
               ELSE last

\* load, the isfile test, the append and the sort
LoadTrack(t) ==
    /\ At(t, "load")
    /\ LET filepath == threads[t].files[threads[t].i]
       IN IF fs[filepath] = "absent"
          THEN /\ EndCall(t, "FileNotFoundError")
               /\ UNCHANGED config_files
          ELSE /\ config_files' =
                      SortByPriority(Append(config_files, <<filepath, DefaultPriority>>))
               /\ threads' = [threads EXCEPT ![t].pc = "rebuild"]
               /\ UNCHANGED last
    /\ UNCHANGED <<config_data, change_listeners, fs, yaml, type_converters,
                   config_metadata, log>>

\* load, the loop that merges the tracked files into a new tree
LoadRebuild(t) ==
    /\ At(t, "rebuild")
    /\ LET built == RebuildFrom(config_files, 1, EmptyDict, fs, yaml)
       IN IF built.exc # "none"
          THEN EndCall(t, built.exc)
          ELSE /\ threads' = [threads EXCEPT ![t].pc = "publish",
                                             ![t].merged = built.data]
               /\ UNCHANGED last
    /\ UNCHANGED <<config_data, config_files, change_listeners, fs, yaml,
                   type_converters, config_metadata, log>>

\* load, the assignment of the new tree and the notification; reload goes
\* on to its next file
LoadPublish(t) ==
    /\ At(t, "publish")
    /\ config_data' = threads[t].merged
    /\ log' = _notify_change_listeners(change_listeners, config_data,
                                       threads[t].merged).log
    /\ IF t = "reloader" /\ threads[t].i < Len(threads[t].files)
       THEN /\ threads' = [threads EXCEPT ![t].pc = "load", ![t].i = @ + 1]
            /\ UNCHANGED last
       ELSE EndCall(t, "none")
    /\ UNCHANGED <<config_files, change_listeners, fs, yaml, type_converters,
                   config_metadata>>

\* reload_worker: _should_reload found a tracked file that exists and was
\* touched; reload, files = [f for f, _ in self._config_files]
ReloadSnapshot ==
    /\ threads["reloader"] = Idle
    /\ \E i \in 1..Len(config_files) : fs[config_files[i][1]] # "absent"
    /\ threads' = [threads EXCEPT !["reloader"] =
                      InCall("clear", [i \in 1..Len(config_files) |-> config_files[i][1]],
                             1, EmptyDict, config_data)]
    /\ UNCHANGED <<config_data, config_files, change_listeners, fs, yaml,
                   type_converters, config_metadata, last, log>>

\* reload, self._config_files = []
ReloadClear ==
    /\ At("reloader", "clear")
    /\ config_files' = <<>>
    /\ threads' = [threads EXCEPT !["reloader"].pc = "load"]
    /\ UNCHANGED <<config_data, change_listeners, fs, yaml, type_converters,
                   config_metadata, last, log>>

\* cfg.to_dict() on the caller's thread: the stored tree as it is now;
\* reloading and files tell the reload that is under way
ToDict ==
    /\ threads["main"] = Idle
    /\ last' = [op |-> "to_dict", exc |-> "none", was |-> config_data,
                ret |-> config_data,
                reloading |-> threads["reloader"] # Idle,
                files |-> IF threads["reloader"] # Idle
                          THEN threads["reloader"].files ELSE <<>>]
    /\ log' = <<>>
    /\ UNCHANGED <<config_data, config_files, change_listeners, fs, yaml,
                   type_converters, config_metadata, threads>>

\* A reader beside the reload: the sources are loaded while the reloader
\* sleeps, the reader reads at any time.
ReaderFiles == {"base.json", "over.json"}

NextReaders ==
    \/ threads["reloader"] = Idle /\ \E f \in ReaderFiles : Load(f, DefaultPriority)
    \/ ReloadSnapshot
    \/ ReloadClear
    \/ LoadTrack("reloader")
    \/ LoadRebuild("reloader")
    \/ LoadPublish("reloader")
    \/ ToDict

SpecReaders == Init /\ [][NextReaders]_vars

-----------------------------------------------------------------------------
(* C22: a reader that calls to_dict while reload runs on the reloader      *)
(* thread sees no partially rebuilt tree: the tree it reads is the merge   *)
(* of all the sources tracked before the reload, which with unchanged      *)
(* files is also the merge of all the sources tracked after it.            *)

FullMerge(names) ==
    RebuildFrom([i \in 1..Len(names) |-> <<names[i], DefaultPriority>>], 1,
                EmptyDict, fs, yaml).data

ReadersSeeWholeTrees ==
    (last.op = "to_dict" /\ last.reloading) => last.ret = FullMerge(last.files)

-----------------------------------------------------------------------------
(* A load beside the reload: base.json is tracked and loaded, the caller   *)
(* loads one more file while the reloader reloads.                         *)

TrackedAtStart == <<"base.json">>
ThreadFiles == {"over.json", "extra.yaml", "gone.json"}

InitThreads ==
    /\ config_data = Content("base.json")
    /\ config_files = <<<<"base.json", DefaultPriority>>>>
    /\ change_listeners = <<>>
    /\ fs = FsInit
    /\ yaml = TRUE
    /\ type_converters = BuiltinConverters
    /\ config_metadata = <<>>
    /\ threads = NoThreads
    /\ last = [op |-> "init", exc |-> "none", was |-> config_data]
    /\ log = <<>>

NextThreads ==
    \/ last.op = "init" /\ \E f \in ThreadFiles : CallLoad(f)
    \/ \E t \in Threads : LoadTrack(t)
    \/ \E t \in Threads : LoadRebuild(t)
    \/ \E t \in Threads : LoadPublish(t)
    \/ ReloadSnapshot
    \/ ReloadClear

SpecThreads == InitThreads /\ [][NextThreads]_vars

-----------------------------------------------------------------------------
(* C25: a load of the caller interleaved with a reload of the reloader     *)
(* loses and duplicates no source: once both are over, the tracked list    *)
(* holds the sources tracked before and, if the load succeeded, the loaded *)
(* file, each once, and the stored tree is the merge of the tracked list.  *)

Times(name) == Cardinality({i \in 1..Len(config_files) : config_files[i][1] = name})

Expected(name) ==
    (IF \E i \in 1..Len(TrackedAtStart) : TrackedAtStart[i] = name THEN 1 ELSE 0)
        + (IF last.exc = "none" /\ last.filepath = name THEN 1 ELSE 0)

LoadBesideReloadKeepsSources ==
    (last.op = "load" /\ \A t \in Threads : threads[t] = Idle) =>
        /\ \A name \in Files : Times(name) = Expected(name)
        /\ config_data = FullMerge([i \in 1..Len(config_files) |-> config_files[i][1]])

====
